---- MODULE Spec2Model ----
(***************************************************************************)
(* Model of src/src/circuit.rs (ark-encryption): the native ElGamal-style  *)
(* scheme (keygen, encrypt, decrypt, decrypt_at), the public-input         *)
(* encoding (get_public_inputs) and the constraint gadget                  *)
(* (ciphertext_var, verify_encryption, generate_constraints) of            *)
(* EncryptCircuit.                                                         *)
(*                                                                         *)
(* The curve group is a cyclic group of order ScalarOrder, written         *)
(* additively and represented by the discrete logarithm of each element to *)
(* the base of the generator; the base field is the integers modulo        *)
(* FieldOrder.  The Poseidon sponge is a fixed function of its             *)
(* configuration and of the absorbed affine point.                        *)
(***************************************************************************)
EXTENDS Integers, Sequences, FiniteSets, TLC

\* ------------------------------------------------------------------ bounds
\* Order of the scalar field / of the prime subgroup (C::ScalarField).
ScalarOrder == 3
\* Order of the base field (C::BaseField).
FieldOrder == 3
\* Largest batch width params.n explored.
MaxN == 2
\* Longest plaintext explored (longer than MaxN - 1, so msg.len() > n happens).
MaxLen == 2

Scalar == 0 .. (ScalarOrder - 1)
Group == 0 .. (ScalarOrder - 1)
BaseField == 0 .. (FieldOrder - 1)
\* The sponge configurations explored (params.poseidon).
SpongeConfigs == {0, 1}

RECURSIVE SeqsUpTo(_, _)
SeqsUpTo(S, k) ==
    IF k = 0 THEN {<<>>}
    ELSE LET shorter == SeqsUpTo(S, k - 1)
         IN  shorter \cup {Append(s, x) : s \in {t \in shorter : Len(t) = k - 1}, x \in S}

Plaintexts == SeqsUpTo(BaseField, MaxLen)

Min(a, b) == IF a <= b THEN a ELSE b

\* ------------------------------------------------- external collaborators
\* Base-field arithmetic: dh + m and c2 - dh.
FAdd(a, b) == (a + b) % FieldOrder
FSub(a, b) == (a - b + FieldOrder) % FieldOrder
Zero == 0

\* C::prime_subgroup_generator()
prime_subgroup_generator == 1

\* point.mul_assign(scalar): the native scalar multiplication.
mul_assign(point, k) == (point * k) % ScalarOrder

\* into_affine(): the canonical affine coordinates (x, y) of a point.
into_affine(point) == <<(point * point) % FieldOrder, point % FieldOrder>>

\* PoseidonSponge::new(cfg); absorb(affine point); squeeze_field_elements(1).remove(0)
squeeze_one(cfg, affine) == (affine[1] + (cfg + 1) * affine[2] + cfg) % FieldOrder

\* to_bytes![&self.r.0]: the little-endian bytes of the scalar (one byte holds
\* every scalar of the model).
to_bytes(k) == <<k % 256>>

\* Mutant of to_bits_le: each byte's bits most significant first.
to_bits_be(bytes) ==
    [j \in 1 .. (8 * Len(bytes)) |->
        LET b == bytes[((j - 1) \div 8) + 1]
            i == 7 - ((j - 1) % 8)
        IN  (b \div (2 ^ i)) % 2]

\* UInt8::to_bits_le, flat-mapped over the bytes: the little-endian bits.
to_bits_le(bytes) ==
    [j \in 1 .. (8 * Len(bytes)) |->
        LET b == bytes[((j - 1) \div 8) + 1]
            i == (j - 1) % 8
        IN  (b \div (2 ^ i)) % 2]

\* CurveVar::scalar_mul_le: little-endian double-and-add.
RECURSIVE scalar_mul_le_from(_, _, _, _)
scalar_mul_le_from(acc, power, bits, j) ==
    IF j > Len(bits) THEN acc
    ELSE scalar_mul_le_from(
             IF bits[j] = 1 THEN (acc + power) % ScalarOrder ELSE acc,
             (power + power) % ScalarOrder, bits, j + 1)

scalar_mul_le(point, bits) == scalar_mul_le_from(0, point, bits, 1)

\* ToConstraintField for a curve point (x, y of the affine form) and for a
\* base-field element (the element itself).
point_to_field_elements(point) == into_affine(point)
field_to_field_elements(c) == <<c>>

RECURSIVE flat_map(_, _)
flat_map(seq, j) ==
    IF j > Len(seq) THEN <<>>
    ELSE field_to_field_elements(seq[j]) \o flat_map(seq, j + 1)

\* Vec::get(i).map_or(zero, |c| c), i counted from 0 as in the source.
get_or_zero(vec, i) == IF i < Len(vec) THEN vec[i + 1] ELSE Zero

\* ------------------------------------------------ NativeEncryptionScheme
\* keygen: secret_key drawn from the rng, public_key = secret_key * generator.
keygen(secret_key) ==
    [sk |-> secret_key, pk |-> mul_assign(prime_subgroup_generator, secret_key)]

\* The pad both encrypt and decrypt derive from a shared point.
dh_of(shared, params) == squeeze_one(params.poseidon, into_affine(shared))

\* Mutant of encrypt: c2 zero-padded to the batch width.
encrypt_padded(pk, msg, r, params) ==
    LET c1 == mul_assign(prime_subgroup_generator, r)
        dh == dh_of(mul_assign(pk, r), params)
        width == IF Len(msg) < params.n THEN params.n ELSE Len(msg)
    IN  [c1 |-> c1,
         c2 |-> [i \in 1 .. width |-> IF i <= Len(msg) THEN FAdd(dh, msg[i]) ELSE Zero]]

encrypt(pk, msg, r, params) ==
    LET c1 == mul_assign(prime_subgroup_generator, r)
        p_r == mul_assign(pk, r)
        dh == dh_of(p_r, params)
    IN  [c1 |-> c1, c2 |-> [i \in 1 .. Len(msg) |-> FAdd(dh, msg[i])]]

\* Mutant of decrypt: the pad is derived from c1 itself, not from sk * c1.
decrypt_without_sk(cipher, sk, params) ==
    LET dh == dh_of(cipher.c1, params)
    IN  [i \in 1 .. Len(cipher.c2) |-> FSub(cipher.c2[i], dh)]

decrypt(cipher, sk, params) ==
    LET s == mul_assign(cipher.c1, sk)
        dh == dh_of(s, params)
    IN  [i \in 1 .. Len(cipher.c2) |-> FSub(cipher.c2[i], dh)]

\* Mutant of decrypt_at: a missing slot reads as zero instead of failing.
decrypt_at_unchecked(cipher, idx, sk, params) ==
    LET dh == dh_of(mul_assign(cipher.c1, sk), params)
    IN  [outcome |-> "ok", value |-> FSub(get_or_zero(cipher.c2, idx), dh)]

\* cipher.1[idx] panics (index out of bounds) before anything is computed.
decrypt_at(cipher, idx, sk, params) ==
    IF idx >= Len(cipher.c2)
    THEN [outcome |-> "panic", error |-> "index out of bounds"]
    ELSE LET s == mul_assign(cipher.c1, sk)
             dh == dh_of(s, params)
         IN  [outcome |-> "ok", value |-> FSub(cipher.c2[idx + 1], dh)]

\* ---------------------------------------------------- PublicInputEncoding
\* Mutant of get_public_inputs: the slots of c2 as they are, no padding to n.
get_public_inputs_unpadded(cipher, params) ==
    point_to_field_elements(cipher.c1) \o flat_map(cipher.c2, 1)

get_public_inputs(cipher, params) ==
    LET c1_inputs == point_to_field_elements(cipher.c1)
        c2_slots == [j \in 1 .. params.n |-> get_or_zero(cipher.c2, j - 1)]
    IN  c1_inputs \o flat_map(c2_slots, 1)

\* ------------------------------------------------------- EncryptCircuit
\* Mutant of new: the randomness kept is not the one encrypted with.
new_other_randomness(pk, msg, params, r) ==
    [r |-> (r + 1) % ScalarOrder, msg |-> msg, pk |-> pk,
     resulted_ciphertext |-> encrypt(pk, msg, r, params),
     params |-> params]

\* EncryptCircuit::new, with r the value Randomness::rand(rnd) returned.
new(pk, msg, params, r) ==
    [r |-> r, msg |-> msg, pk |-> pk,
     resulted_ciphertext |-> encrypt(pk, msg, r, params),
     params |-> params]

\* CV::new_variable(.., mode) / FpVar::new_variable(.., mode): the values the
\* allocation adds to the instance (public input) assignment.
alloc_point(point, mode) == IF mode = "Input" THEN into_affine(point) ELSE <<>>
alloc_field(c, mode) == IF mode = "Input" THEN <<c>> ELSE <<>>

RECURSIVE alloc_fields(_, _, _)
alloc_fields(vals, mode, j) ==
    IF j > Len(vals) THEN <<>>
    ELSE alloc_field(vals[j], mode) \o alloc_fields(vals, mode, j + 1)

\* Mutant of ciphertext_var: one variable per slot of c2, not per slot of n.
ciphertext_var_unpadded(self, mode) ==
    LET c1 == self.resulted_ciphertext.c1
        c2 == self.resulted_ciphertext.c2
    IN  [c1 |-> c1, c2 |-> c2,
         inputs |-> alloc_point(c1, mode) \o alloc_fields(c2, mode, 1)]

\* ciphertext_var: the variables (c1, c2) and, in order, what was allocated as
\* public input.
ciphertext_var(self, mode) ==
    LET c1 == self.resulted_ciphertext.c1
        c2 == [j \in 1 .. self.params.n |->
                  get_or_zero(self.resulted_ciphertext.c2, j - 1)]
    IN  [c1 |-> c1, c2 |-> c2,
         inputs |-> alloc_point(c1, mode) \o alloc_fields(c2, mode, 1)]

\* Mutant of verify_encryption: every slot's equality is enforced.
verify_encryption_unconditional(self, plaintext, ciphertext) ==
    IF ~(self.params.n >= Len(plaintext)) \/ ~(self.params.n >= Len(ciphertext.c2))
    THEN [outcome |-> "panic", constraints |-> <<>>]
    ELSE LET randomness == to_bits_le(to_bytes(self.r))
             s == scalar_mul_le(self.pk, randomness)
             c1 == scalar_mul_le(prime_subgroup_generator, randomness)
             dh == squeeze_one(self.params.poseidon, into_affine(s))
             slots == Min(Len(plaintext), Len(ciphertext.c2))
         IN  [outcome |-> "ok",
              constraints |->
                  <<[lhs |-> c1, rhs |-> ciphertext.c1, cond |-> TRUE]>>
                  \o [j \in 1 .. slots |->
                         [lhs |-> FAdd(dh, plaintext[j]),
                          rhs |-> ciphertext.c2[j],
                          cond |-> TRUE]]]

\* verify_encryption: the two assert!s, then the constraints it enforces, each
\* as (lhs, rhs, cond): lhs == rhs is enforced when cond holds.
verify_encryption(self, plaintext, ciphertext) ==
    IF ~(self.params.n >= Len(plaintext)) \/ ~(self.params.n >= Len(ciphertext.c2))
    THEN [outcome |-> "panic", constraints |-> <<>>]
    ELSE LET g == prime_subgroup_generator
             randomness == to_bits_le(to_bytes(self.r))
             s == scalar_mul_le(self.pk, randomness)
             c1 == scalar_mul_le(g, randomness)
             dh == squeeze_one(self.params.poseidon, into_affine(s))
             slots == Min(Len(plaintext), Len(ciphertext.c2))
         IN  [outcome |-> "ok",
              constraints |->
                  <<[lhs |-> c1, rhs |-> ciphertext.c1, cond |-> TRUE]>>
                  \o [j \in 1 .. slots |->
                         [lhs |-> FAdd(dh, plaintext[j]),
                          rhs |-> ciphertext.c2[j],
                          cond |-> ~(ciphertext.c2[j] = Zero)]]]

\* ConstraintSynthesizer::generate_constraints: the plaintext witness, the
\* public ciphertext, then verify_encryption.
generate_constraints(self) ==
    LET message == [j \in 1 .. self.params.n |-> get_or_zero(self.msg, j - 1)]
        ciphertext == ciphertext_var(self, "Input")
        v == verify_encryption(self, message, ciphertext)
    IN  [outcome |-> v.outcome, witness |-> message,
         instance |-> ciphertext.inputs, constraints |-> v.constraints]

\* ConstraintSystem::is_satisfied on what synthesis left behind.
is_satisfied(cs) ==
    /\ cs.outcome = "ok"
    /\ \A j \in 1 .. Len(cs.constraints) :
          cs.constraints[j].cond => cs.constraints[j].lhs = cs.constraints[j].rhs

\* ------------------------------------------------------------ the state
VARIABLES
    params,   \* Parameters { n, poseidon }: set once, read-only
    rng,      \* the scalars the random generator will yield, in order
    msg,      \* the plaintext the caller holds
    keys,     \* the key pair keygen returned, once it has run
    enc,      \* the caller's encryption: the pk it used and the ciphertext
    circuit,  \* the EncryptCircuit the caller holds
    ret       \* the last call's arguments and result

vars == <<params, rng, msg, keys, enc, circuit, ret>>

None == [tag |-> "none"]
Some(v) == [tag |-> "some", val |-> v]
\* No call made yet (or its result dropped).
NoCall == [op |-> "none"]

ParamSet == [n : 1 .. MaxN, poseidon : SpongeConfigs]

\* A session: the parameters, the plaintext, and a generator that yields one
\* scalar for keygen and one for the encryption randomness.
Init ==
    /\ params \in ParamSet
    /\ rng \in {<<a, b>> : a \in Scalar, b \in Scalar}
    /\ msg \in Plaintexts
    /\ keys = None
    /\ enc = None
    /\ circuit = None
    /\ ret = NoCall

\* ---------------------------------------------------------- native calls
KeygenStep ==
    /\ keys = None
    /\ rng # <<>>
    /\ keys' = Some(keygen(Head(rng)))
    /\ rng' = Tail(rng)
    /\ UNCHANGED <<params, msg, enc, circuit, ret>>

\* The caller draws r and encrypts msg to a public key: its own or another's.
EncryptStep ==
    /\ keys # None
    /\ enc = None
    /\ rng # <<>>
    /\ \E pk \in Group :
          enc' = Some([pk |-> pk, r |-> Head(rng),
                       cipher |-> encrypt(pk, msg, Head(rng), params)])
    /\ rng' = Tail(rng)
    /\ UNCHANGED <<params, msg, keys, circuit, ret>>

DecryptStep ==
    /\ keys # None
    /\ enc # None
    /\ ret' = [op |-> "decrypt", sk |-> keys.val.sk,
               out |-> decrypt(enc.val.cipher, keys.val.sk, params)]
    /\ UNCHANGED <<params, rng, msg, keys, enc, circuit>>

DecryptAtStep ==
    /\ keys # None
    /\ enc # None
    /\ \E idx \in 0 .. (MaxLen + 1) :
          ret' = [op |-> "decrypt_at", idx |-> idx, sk |-> keys.val.sk,
                  res |-> decrypt_at(enc.val.cipher, idx, keys.val.sk, params)]
    /\ UNCHANGED <<params, rng, msg, keys, enc, circuit>>

\* The verifier encodes the published ciphertext.
PublicInputsStep ==
    /\ enc # None
    /\ ret' = [op |-> "get_public_inputs", cipher |-> enc.val.cipher,
               inputs |-> get_public_inputs(enc.val.cipher, params)]
    /\ UNCHANGED <<params, rng, msg, keys, enc, circuit>>

\* ------------------------------------------------------- circuit object
\* new(pk, msg, params, rnd): draws r, encrypts, keeps everything.
NewStep ==
    /\ keys # None
    /\ circuit = None
    /\ enc = None
    /\ rng # <<>>
    /\ circuit' = Some(new(keys.val.pk, msg, params, Head(rng)))
    /\ rng' = Tail(rng)
    /\ UNCHANGED <<params, msg, keys, enc, ret>>

Congruent(c) == c.resulted_ciphertext = encrypt(c.pk, c.msg, c.r, c.params)

\* resulted_ciphertext is a pub field: the holder of the circuit assigns to
\* its c1, or to one slot of its c2.  (The constructed ciphertext is
\* overwritten once.)
WriteCiphertextStep ==
    /\ circuit # None
    /\ Congruent(circuit.val)
    /\ LET rc == circuit.val.resulted_ciphertext
       IN  \/ \E c1 \in Group \ {rc.c1} :
                 circuit' = Some([circuit.val EXCEPT !.resulted_ciphertext.c1 = c1])
           \/ \E j \in 1 .. Len(rc.c2) : \E v \in BaseField \ {rc.c2[j]} :
                 circuit' = Some([circuit.val EXCEPT !.resulted_ciphertext.c2[j] = v])
    /\ ret' = NoCall
    /\ UNCHANGED <<params, rng, msg, keys, enc>>

CiphertextVarStep ==
    /\ circuit # None
    /\ \E mode \in {"Input", "Witness"} :
          ret' = [op |-> "ciphertext_var", mode |-> mode,
                  res |-> ciphertext_var(circuit.val, mode)]
    /\ UNCHANGED <<params, rng, msg, keys, enc, circuit>>

\* get_public_inputs(&circuit.resulted_ciphertext, &params), as the verifier of
\* the circuit's proof calls it.
CircuitPublicInputsStep ==
    /\ circuit # None
    /\ ret' = [op |-> "get_public_inputs",
               cipher |-> circuit.val.resulted_ciphertext,
               inputs |-> get_public_inputs(circuit.val.resulted_ciphertext, params)]
    /\ UNCHANGED <<params, rng, msg, keys, enc, circuit>>

\* generate_constraints(self, cs): consumes the circuit.
GenerateConstraintsStep ==
    /\ circuit # None
    /\ ret' = [op |-> "generate_constraints", self |-> circuit.val,
               cs |-> generate_constraints(circuit.val)]
    /\ circuit' = None
    /\ UNCHANGED <<params, rng, msg, keys, enc>>

\* ------------------------------------------- the gadget, called directly
PadTo(vec, n) == [j \in 1 .. n |-> get_or_zero(vec, j - 1)]

\* verify_encryption(&self, cs, &plaintext, &ciphertext) with the vectors of
\* generate_constraints, with one plaintext slot holding another witness
\* value, or with the unpadded plaintext and ciphertext.
VerifyEncryptionStep ==
    /\ circuit # None
    /\ LET self == circuit.val
           padded == PadTo(self.msg, self.params.n)
           cvar == ciphertext_var(self, "Input")
       IN  \/ \E j \in 1 .. self.params.n : \E v \in BaseField :
                 ret' = [op |-> "verify_encryption",
                         plaintext |-> [padded EXCEPT ![j] = v],
                         ciphertext |-> [c1 |-> cvar.c1, c2 |-> cvar.c2],
                         res |-> verify_encryption(self, [padded EXCEPT ![j] = v], cvar)]
           \/ \E ct \in {[c1 |-> cvar.c1, c2 |-> cvar.c2], self.resulted_ciphertext} :
                 ret' = [op |-> "verify_encryption",
                         plaintext |-> self.msg,
                         ciphertext |-> ct,
                         res |-> verify_encryption(self, self.msg, ct)]
    /\ UNCHANGED <<params, rng, msg, keys, enc, circuit>>

\* ------------------------------------------------------ specifications
\* The native scheme: keygen, encrypt, decrypt, decrypt_at, the encoding of a
\* ciphertext, and the construction of a circuit.
NextNative ==
    \/ KeygenStep
    \/ EncryptStep
    \/ DecryptStep
    \/ DecryptAtStep
    \/ PublicInputsStep
    \/ NewStep

SpecNative == Init /\ [][NextNative]_vars

\* The circuit object: construction, a write to its pub field, synthesis.
NextCircuit ==
    \/ KeygenStep
    \/ NewStep
    \/ WriteCiphertextStep
    \/ CiphertextVarStep
    \/ CircuitPublicInputsStep
    \/ GenerateConstraintsStep

SpecCircuit == Init /\ [][NextCircuit]_vars

\* The gadget called on a freshly constructed circuit.
NextGadget ==
    \/ KeygenStep
    \/ NewStep
    \/ VerifyEncryptionStep

SpecGadget == Init /\ [][NextGadget]_vars

\* ================================================================ claims
\* What the circuit's own r, pk and msg encrypt to.
Honest(self) == encrypt(self.pk, self.msg, self.r, self.params)

\* ---- C1
\* C1: round trip.  When the ciphertext was encrypted to the caller's own
\* public key (pk = sk * generator, from keygen) and msg.len() <= n, decrypt
\* returns a sequence whose first msg.len() elements are msg, in order.
C1_RoundTrip ==
    (ret.op = "decrypt" /\ enc.val.pk = keys.val.pk /\ Len(msg) <= params.n)
        => /\ Len(ret.out) >= Len(msg)
           /\ \A i \in 1 .. Len(msg) : ret.out[i] = msg[i]

C1_Witness ==
    /\ ret.op = "decrypt"
    /\ enc.val.pk = keys.val.pk
    /\ keys.val.sk # 0
    /\ enc.val.r # 0
    /\ Len(msg) = 2 /\ Len(msg) <= params.n
    /\ msg[1] # msg[2]
    /\ ret.out = msg

\* ---- C4
\* C4: get_public_inputs returns the embedding of c1 followed by exactly n
\* slots, slot i holding c2[i] when i < c2.len() and zero otherwise, in
\* increasing slot order; after a length-k message with k < n the last n - k
\* slots are zero.
C4_PublicInputEncoding ==
    ret.op = "get_public_inputs"
        => LET c1e == point_to_field_elements(ret.cipher.c1)
               k == Len(ret.cipher.c2)
           IN  /\ Len(ret.inputs) = Len(c1e) + params.n
               /\ \A j \in 1 .. Len(c1e) : ret.inputs[j] = c1e[j]
               /\ \A i \in 0 .. (params.n - 1) :
                     ret.inputs[Len(c1e) + i + 1] =
                         IF i < k THEN ret.cipher.c2[i + 1] ELSE 0
               /\ (enc # None /\ Len(msg) < params.n)
                     => \A i \in Len(msg) .. (params.n - 1) :
                           ret.inputs[Len(c1e) + i + 1] = 0

C4_Witness ==
    /\ ret.op = "get_public_inputs"
    /\ enc # None
    /\ Len(msg) = 1 /\ params.n = 2
    /\ ret.cipher.c2[1] # 0
    /\ ret.inputs[Len(ret.inputs)] = 0

\* ---- C5
\* C5 as stated: every ciphertext, the one encrypt returns and the one new
\* stores in resulted_ciphertext, has c2.len() == n whenever msg.len() <= n.
C5_WidthIsN ==
    Len(msg) <= params.n
        => /\ enc # None => Len(enc.val.cipher.c2) = params.n
           /\ circuit # None => Len(circuit.val.resulted_ciphertext.c2) = params.n

\* C5 amended: the ciphertext encrypt returns, and the one new stores, has
\* c2.len() == msg.len(): one slot per plaintext element, no padding.
C5_WidthIsMsgLen ==
    /\ enc # None => Len(enc.val.cipher.c2) = Len(msg)
    /\ circuit # None =>
          Len(circuit.val.resulted_ciphertext.c2) = Len(circuit.val.msg)

C5_Witness ==
    /\ enc # None
    /\ Len(msg) < params.n
    /\ Len(enc.val.cipher.c2) = Len(msg)

\* ---- C7
\* C7: for an idx that addresses a slot of c2, decrypt_at returns what decrypt
\* returns at that slot, c2[idx] - dh; for an idx past c2.len() the call fails
\* with a bounds error and yields no value.
C7_DecryptAt ==
    ret.op = "decrypt_at"
        => LET c2 == enc.val.cipher.c2
               dh == dh_of(mul_assign(enc.val.cipher.c1, ret.sk), params)
           IN  /\ ret.idx < Len(c2)
                     => /\ ret.res.outcome = "ok"
                        /\ ret.res.value =
                               decrypt(enc.val.cipher, ret.sk, params)[ret.idx + 1]
                        /\ ret.res.value = FSub(c2[ret.idx + 1], dh)
               /\ ret.idx > Len(c2)
                     => /\ ret.res.outcome = "panic"
                        /\ "value" \notin DOMAIN ret.res

C7_Witness ==
    /\ ret.op = "decrypt_at"
    /\ ret.idx = 1
    /\ Len(enc.val.cipher.c2) = 2
    /\ ret.res.outcome = "ok"
    /\ ret.res.value # enc.val.cipher.c2[2]

C7_WitnessBounds ==
    /\ ret.op = "decrypt_at"
    /\ ret.idx > Len(enc.val.cipher.c2)
    /\ ret.res.outcome = "panic"

\* ---- C2
\* C2: gadget completeness.  For a circuit whose public ciphertext is the
\* encryption of its own (pk, msg, r), with msg.len() <= n, synthesis allocates
\* msg zero-padded to n slots as the witness and the zero-padded ciphertext as
\* the public input, and the constraint system is satisfied.
C2_Completeness ==
    (/\ ret.op = "generate_constraints"
     /\ Congruent(ret.self)
     /\ Len(ret.self.msg) <= ret.self.params.n)
        => /\ ret.cs.outcome = "ok"
           /\ ret.cs.witness = PadTo(ret.self.msg, ret.self.params.n)
           /\ ret.cs.instance = get_public_inputs(Honest(ret.self), ret.self.params)
           /\ is_satisfied(ret.cs)

C2_Witness ==
    /\ ret.op = "generate_constraints"
    /\ Congruent(ret.self)
    /\ Len(ret.self.msg) = 1 /\ ret.self.params.n = 2
    /\ ret.self.r = 2
    /\ ret.self.msg[1] # 0
    /\ ret.self.resulted_ciphertext.c2[1] # 0
    /\ is_satisfied(ret.cs)

\* ---- C3
\* The public ciphertext differs from the honest one in c1 alone, or in one
\* non-padding slot of c2 alone.
OnlyC1Replaced(self) ==
    /\ self.resulted_ciphertext.c1 # Honest(self).c1
    /\ self.resulted_ciphertext.c2 = Honest(self).c2

OnlySlotReplaced(self, i) ==
    /\ self.resulted_ciphertext.c1 = Honest(self).c1
    /\ Len(self.resulted_ciphertext.c2) = Len(Honest(self).c2)
    /\ i \in 1 .. Len(self.msg)
    /\ self.resulted_ciphertext.c2[i] # Honest(self).c2[i]
    /\ \A k \in (1 .. Len(self.msg)) \ {i} :
          self.resulted_ciphertext.c2[k] = Honest(self).c2[k]

\* C3: gadget soundness.  With the witnesses held fixed (msg.len() <= n),
\* replacing the public c2[i] of one non-padding slot by any different value,
\* or the public c1 by any different group element, makes the constraint
\* system unsatisfied.
C3_Soundness ==
    (/\ ret.op = "generate_constraints"
     /\ Len(ret.self.msg) <= ret.self.params.n
     /\ \/ OnlyC1Replaced(ret.self)
        \/ \E i \in 1 .. Len(ret.self.msg) : OnlySlotReplaced(ret.self, i))
        => ~is_satisfied(ret.cs)

\* The part of C3 the code does meet: a replacement of c1, or of a slot by a
\* value other than zero, leaves the system unsatisfied.
C3_SoundnessNonZero ==
    (/\ ret.op = "generate_constraints"
     /\ Len(ret.self.msg) <= ret.self.params.n
     /\ \/ OnlyC1Replaced(ret.self)
        \/ \E i \in 1 .. Len(ret.self.msg) :
              /\ OnlySlotReplaced(ret.self, i)
              /\ ret.self.resulted_ciphertext.c2[i] # 0)
        => ~is_satisfied(ret.cs)

\* ---- C6
\* C6: whenever msg.len() > n or c2.len() > n, synthesis is rejected before any
\* constraint is generated and never yields a satisfied constraint system.
C6_LengthRejected ==
    (/\ ret.op = "generate_constraints"
     /\ \/ Len(ret.self.msg) > ret.self.params.n
        \/ Len(ret.self.resulted_ciphertext.c2) > ret.self.params.n)
        => /\ ret.cs.outcome = "panic"
           /\ ret.cs.constraints = <<>>
           /\ ~is_satisfied(ret.cs)

\* ---- C8
\* C8 as stated: whatever the caller did, at the time constraints are
\* synthesised the circuit carries the encryption of its own msg under its
\* own pk and r.
C8_AlwaysCongruent ==
    ret.op = "generate_constraints" => Congruent(ret.self)

\* C8 amended: new() leaves the circuit carrying the encryption of its own msg
\* under its own pk and r; afterwards r, msg, pk and params never change, the
\* only thing that changes a held circuit is an assignment to its pub field
\* resulted_ciphertext, and synthesis uses the ciphertext the circuit holds
\* when it is consumed.
C8_CongruentUntilWritten ==
    [][/\ (circuit = None /\ circuit' # None) => Congruent(circuit'.val)
       /\ (circuit # None /\ circuit' # None)
             => [circuit'.val EXCEPT !.resulted_ciphertext =
                     circuit.val.resulted_ciphertext] = circuit.val
       /\ (circuit # None /\ ret'.op = "generate_constraints" /\ ret' # ret)
             => ret'.self = circuit.val
      ]_vars

C8_Witness ==
    /\ ret.op = "generate_constraints"
    /\ Len(ret.self.msg) = 2
    /\ ret.self.r # 0
    /\ Congruent(ret.self)
    /\ ret.self.resulted_ciphertext.c2[1] # ret.self.resulted_ciphertext.c2[2]

\* ---- C10
\* C10: what ciphertext_var allocates as public inputs (c1, then n slots of c2,
\* zero for a missing slot) is, element for element and in order, what
\* get_public_inputs returns for the circuit's ciphertext, whatever c2.len()
\* is; so is the instance generate_constraints leaves behind.
C10_PublicInputAgreement ==
    /\ (ret.op = "ciphertext_var" /\ ret.mode = "Input")
          => ret.res.inputs =
                 get_public_inputs(circuit.val.resulted_ciphertext, circuit.val.params)
    /\ ret.op = "generate_constraints"
          => ret.cs.instance =
                 get_public_inputs(ret.self.resulted_ciphertext, ret.self.params)

C10_Witness ==
    /\ ret.op = "ciphertext_var" /\ ret.mode = "Input"
    /\ Len(circuit.val.resulted_ciphertext.c2) > circuit.val.params.n
    /\ circuit.val.resulted_ciphertext.c2[2] # 0
    /\ Len(ret.res.inputs) = 3

\* ---- C9
\* C9: conditional slot enforcement.  On the n-slot vectors of an honest
\* circuit, slot i's equality dh + plaintext_i == c2_i is enforced exactly when
\* the public c2_i is not zero: the system is satisfied if and only if every
\* slot with a non-zero c2_i holds the honest plaintext, whatever witness value
\* sits in a slot whose c2_i is zero.
C9_ConditionalEnforcement ==
    (/\ ret.op = "verify_encryption"
     /\ Len(ret.plaintext) = circuit.val.params.n
     /\ Len(ret.ciphertext.c2) = circuit.val.params.n)
        => LET n == circuit.val.params.n
               padded == PadTo(circuit.val.msg, n)
           IN  /\ ret.res.outcome = "ok"
               /\ Len(ret.res.constraints) = n + 1
               /\ \A i \in 1 .. n :
                     ret.res.constraints[i + 1].cond <=> (ret.ciphertext.c2[i] # 0)
               /\ is_satisfied(ret.res)
                     <=> \A i \in 1 .. n :
                            (ret.ciphertext.c2[i] # 0) => ret.plaintext[i] = padded[i]

C9_Witness ==
    /\ ret.op = "verify_encryption"
    /\ Len(ret.plaintext) = circuit.val.params.n
    /\ Len(ret.ciphertext.c2) = circuit.val.params.n
    /\ \E i \in 1 .. circuit.val.params.n :
          /\ ret.ciphertext.c2[i] = 0
          /\ ret.plaintext[i] # PadTo(circuit.val.msg, circuit.val.params.n)[i]
    /\ \E i \in 1 .. circuit.val.params.n : ret.ciphertext.c2[i] # 0
    /\ is_satisfied(ret.res)

====
